---- MODULE Spec2Model ----
(***************************************************************************)
(* A model of fixer (src/src/fixer/__init__.py): the OrgRenderer that      *)
(* turns a parsed Markdown tree plus front matter into Org text, the Hugo  *)
(* ref / relref recognizers, and the Runner that converts a directory.     *)
(*                                                                         *)
(* Text is modelled character by character: a Python str is a sequence of  *)
(* one-character strings, so that newlines, prefixes and suffixes of the   *)
(* rendered text are visible to the properties below.                      *)
(***************************************************************************)
EXTENDS Integers, Sequences, FiniteSets, TLC

VARIABLES
    metadata,   \* OrgRenderer.metadata: the front matter mapping
    doc,        \* the Document handed to render
    out,        \* the string render returned
    parts,      \* what render_inner's map(self.render, children) produced for the Document
    stdout,     \* what has been written to standard output
    pc,         \* "ready" before the render call, "done" after it
    text,       \* the span of source text handed to the recognizers
    link,       \* the link written in text: kind, title, target
    tok,        \* the token the recognizers built from text
    tokout,     \* the rendering of tok
    tpc,        \* "scan", "found", "rendered"
    input_exists,  \* Runner: whether input_dir exists
    clobber,    \* Runner.clobber
    tree,       \* the files under input_dir: a set of [dir, name]
    todo,       \* files rglob has yet to yield
    dest,       \* output_dir: file name -> content
    rpc         \* "start", "loop", "done", "error"

renderVars == <<metadata, doc, out, parts, stdout, pc>>
refVars == <<text, link, tok, tokout, tpc>>
runVars == <<input_exists, clobber, tree, todo, dest, rpc>>
vars == <<metadata, doc, out, parts, stdout, pc, text, link, tok, tokout, tpc,
          input_exists, clobber, tree, todo, dest, rpc>>

-----------------------------------------------------------------------------
(* Text *)

NL == "\n"

RECURSIVE Join(_)
\* ''.join(fragments)
Join(fragments) ==
    IF fragments = <<>> THEN <<>>
    ELSE Head(fragments) \o Join(Tail(fragments))

RECURSIVE Times(_, _)
\* n * s
Times(n, s) == IF n <= 0 THEN <<>> ELSE s \o Times(n - 1, s)

sPost == <<"P", "o", "s", "t">>
sHello == <<"H", "e", "l", "l", "o">>
sDate == <<"2", "0", "2", "4", "-", "0", "1", "-", "0", "1">>
sAnn == <<"A", "n", "n">>
sPython == <<"p", "y", "t", "h", "o", "n">>
sPrint == <<"p", "r", "i", "n", "t", "(", "1", ")", NL>>
sBeginSrc == <<"#", "+", "b", "e", "g", "i", "n", "_", "s", "r", "c">>
sEndSrc == <<"#", "+", "e", "n", "d", "_", "s", "r", "c">>
sTitleKey == <<"#", "+", "t", "i", "t", "l", "e", ":", " ">>
sDateKey == <<"#", "+", "d", "a", "t", "e", ":", " ">>
sAuthorKey == <<"#", "+", "a", "u", "t", "h", "o", "r", ":", " ">>

-----------------------------------------------------------------------------
(* Tokens: one record shape for every kind; a kind reads only its own fields *)

Token(kind) ==
    [kind |-> kind, content |-> <<>>, children |-> <<>>, level |-> 0,
     soft |-> FALSE, target |-> <<>>, title |-> <<>>, language |-> <<>>,
     prepend |-> 0]

RawText(s) == [Token("RawText") EXCEPT !.content = s]
LineBreak(soft) == [Token("LineBreak") EXCEPT !.soft = soft]
Strong(ch) == [Token("Strong") EXCEPT !.children = ch]
InlineCode(ch) == [Token("InlineCode") EXCEPT !.children = ch]
Link(target, ch) == [Token("Link") EXCEPT !.target = target, !.children = ch]
Heading(level, ch) == [Token("Heading") EXCEPT !.level = level, !.children = ch]
Paragraph(ch) == [Token("Paragraph") EXCEPT !.children = ch]
BlockCode(language, body) ==
    [Token("BlockCode") EXCEPT !.language = language,
                               !.children = <<RawText(body)>>]
ListItem(prepend, ch) ==
    [Token("ListItem") EXCEPT !.prepend = prepend, !.children = ch]
List(ch) == [Token("List") EXCEPT !.children = ch]
Quote(ch) == [Token("Quote") EXCEPT !.children = ch]
Document(ch) == [Token("Document") EXCEPT !.children = ch]

-----------------------------------------------------------------------------
(* OrgRenderer *)

\* render_heading with the space after the stars left out
render_heading_nospace(level, inner) ==
    Join(<<Times(level, <<"*">>), inner, Times(2, <<NL>>)>>)

render_heading(level, inner) ==
    Join(<<Times(level, <<"*">>), <<" ">>, inner, Times(2, <<NL>>)>>)

\* render_paragraph with a single newline after the content
render_paragraph_one(inner) == Join(<<inner, Times(1, <<NL>>)>>)

render_paragraph(inner) == Join(<<inner, Times(2, <<NL>>)>>)

render_block_code(language, inner) ==
    Join(<<sBeginSrc, <<" ">> \o language, <<NL>>, inner, sEndSrc,
           Times(2, <<NL>>)>>)

render_list_item(prepend, inner) ==
    Join(<<Times(prepend, <<" ">>), <<"-", " ">>, inner>>)

render_line_break(soft) == IF ~soft THEN <<NL>> ELSE <<" ">>

render_link(target, title) ==
    <<"[", "[">> \o target \o <<"]", "[">> \o title \o <<"]", "]">>

render_ref_tag(target, title) ==
    <<"[", "[">> \o target \o <<"]", "[">> \o title \o <<"]", "]">>

render_rel_ref_tag(target, title) ==
    <<"[", "[">> \o target \o <<"]", "[">> \o title \o <<"]", "]">>

render_figure_tag(target) == <<"[", "[">> \o target \o <<"]", "]">>

RECURSIVE render(_)
\* BaseRenderer.render_inner: ''.join(map(self.render, token.children))
render_inner(token) ==
    Join([i \in 1..Len(token.children) |-> render(token.children[i])])

\* BaseRenderer.render: the render_* method registered for the token's kind
render(token) ==
    CASE token.kind = "RawText" -> token.content
      [] token.kind = "Strong" -> <<"*">> \o render_inner(token) \o <<"*">>
      [] token.kind = "Emphasis" -> render_inner(token)
      [] token.kind = "InlineCode" -> <<"~">> \o render_inner(token) \o <<"~">>
      [] token.kind = "Strikethrough" -> render_inner(token)
      [] token.kind = "Image" -> render_inner(token)
      [] token.kind = "Link" -> render_link(token.target, render_inner(token))
      [] token.kind = "AutoLink" -> render_link(token.target, render_inner(token))
      [] token.kind = "EscapeSequence" -> render_inner(token)
      [] token.kind = "LineBreak" -> render_line_break(token.soft)
      [] token.kind = "Heading" -> render_heading(token.level, render_inner(token))
      [] token.kind = "Quote" -> render_inner(token)
      [] token.kind = "Paragraph" -> render_paragraph(render_inner(token))
      [] token.kind = "BlockCode" ->
            render_block_code(token.language, render_inner(token))
      [] token.kind = "List" -> render_inner(token)
      [] token.kind = "ListItem" ->
            render_list_item(token.prepend, render_inner(token))
      [] token.kind = "RefTag" -> render_ref_tag(token.target, token.title)
      [] token.kind = "RelRefTag" -> render_rel_ref_tag(token.target, token.title)
      [] token.kind = "FigureTag" -> render_figure_tag(token.target)

RECURSIVE printed(_)
\* What a render of token writes to standard output, in order: render_list_item
\* pprints vars(token) before it renders the item's children.
printed(token) ==
    LET below == Join([i \in 1..Len(token.children) |->
                          printed(token.children[i])])
    IN  IF token.kind = "ListItem" THEN <<token>> \o below ELSE below

RECURSIVE Dedup(_, _, _)
\* [prev := i for i in output if prev != i]; started is FALSE while prev is
\* still the marker object(), which equals no fragment.
Dedup(output, started, prev) ==
    IF output = <<>> THEN <<>>
    ELSE IF started /\ prev = Head(output)
         THEN Dedup(Tail(output), TRUE, prev)
         ELSE <<Head(output)>> \o Dedup(Tail(output), TRUE, Head(output))

\* metadata.get(key, default), then the test `if value`
Truthy(md, key) == key \in DOMAIN md /\ md[key] # <<>>

title_line(md) ==
    sTitleKey \o (IF "title" \in DOMAIN md THEN md["title"] ELSE <<>>)

\* the date line built whenever the mapping has a date entry
date_line_any(md) ==
    IF "date" \in DOMAIN md THEN sDateKey \o md["date"] ELSE <<>>

date_line(md) == IF Truthy(md, "date") THEN sDateKey \o md["date"] ELSE <<>>

author_line(md) ==
    IF Truthy(md, "author") THEN sAuthorKey \o md["author"] ELSE <<>>

\* the fragment list render_document assembles, before the de-duplication
fragments(md, inner) ==
    <<title_line(md), <<NL>>, date_line(md), <<NL>>, author_line(md), <<NL>>,
      inner>>

render_document(md, inner) == Join(Dedup(fragments(md, inner), FALSE, <<>>))

-----------------------------------------------------------------------------
(* The inputs of a render call *)

MaxBlocks == 2

Levels == {1, 3}

Keys == {"title", "date", "author"}

Values(key) ==
    CASE key = "title" -> {sPost}
      [] key = "date" -> {<<>>, sDate}
      [] key = "author" -> {<<>>, sAnn}

Metadatas ==
    {md \in UNION {[D -> {<<>>, sPost, sDate, sAnn}] : D \in SUBSET Keys} :
        \A k \in DOMAIN md : md[k] \in Values(k)}

HeadingRuns == {<<RawText(sPost)>>, <<RawText(sHello), LineBreak(FALSE)>>}

ParagraphRuns ==
    {<<>>,
     <<RawText(sHello)>>,
     <<RawText(sHello), LineBreak(FALSE)>>,
     <<RawText(sPost), LineBreak(TRUE), Strong(<<RawText(sHello)>>)>>,
     <<Link(sPost, <<InlineCode(<<RawText(sHello)>>)>>)>>}

Blocks ==
    {Heading(l, r) : l \in Levels, r \in HeadingRuns}
    \cup {Paragraph(r) : r \in ParagraphRuns}
    \cup {BlockCode(l, sPrint) : l \in {<<>>, sPython}}
    \cup {List(<<ListItem(2, <<Paragraph(<<RawText(sHello)>>)>>)>>)}
    \cup {LineBreak(FALSE)}

Documents ==
    {Document(ch) : ch \in UNION {[1..n -> Blocks] : n \in 0..MaxBlocks}}

-----------------------------------------------------------------------------
(* SpecRender: one call of OrgRenderer(metadata).render(doc) *)

IdleRef ==
    /\ text = <<>> /\ link = <<>> /\ tok = <<>> /\ tokout = <<>> /\ tpc = "idle"

IdleRun ==
    /\ input_exists = FALSE /\ clobber = FALSE /\ tree = {} /\ todo = {}
    /\ dest = <<>> /\ rpc = "idle"

IdleRender ==
    /\ metadata = <<>> /\ doc = Document(<<>>) /\ out = <<>> /\ parts = <<>>
    /\ stdout = <<>> /\ pc = "idle"

InitRender ==
    /\ metadata \in Metadatas
    /\ doc \in Documents
    /\ out = <<>>
    /\ parts = <<>>
    /\ stdout = <<>>
    /\ pc = "ready"
    /\ IdleRef
    /\ IdleRun

\* renderer.render(doc): render_document, with everything it calls
Render ==
    /\ pc = "ready"
    /\ parts' = [i \in 1..Len(doc.children) |-> render(doc.children[i])]
    /\ out' = render_document(metadata, render_inner(doc))
    /\ stdout' = stdout \o printed(doc)
    /\ pc' = "done"
    /\ UNCHANGED <<metadata, doc>>
    /\ UNCHANGED refVars
    /\ UNCHANGED runVars

NextRender == Render

SpecRender == InitRender /\ [][NextRender]_vars

-----------------------------------------------------------------------------
(* The recognizers: RefTag.pattern and RelRefTag.pattern, matched the way   *)
(* Python's re matches them (leftmost start, greedy and lazy repetitions    *)
(* tried in their order, backtracking).                                    *)

Whitespace == {" ", "\t", NL}

Lit(s) == [t |-> "lit", s |-> s, c |-> {}, min |-> 0]
Greedy(c, min) == [t |-> "greedy", s |-> <<>>, c |-> c, min |-> min]
LazyGroup == [t |-> "group", s |-> <<>>, c |-> {}, min |-> 1]

\* r"\[*(.+?)\]\({{<\s*ref\s+\"*(.+?)\"\s*>}}\)"
RefTag_pattern ==
    <<Greedy({"["}, 0), LazyGroup, Lit(<<"]", "(", "{", "{", "<">>),
      Greedy(Whitespace, 0), Lit(<<"r", "e", "f">>), Greedy(Whitespace, 1),
      Greedy({"\""}, 0), LazyGroup, Lit(<<"\"">>), Greedy(Whitespace, 0),
      Lit(<<">", "}", "}", ")">>)>>

\* r"\[*(.+?)\]\({{<\s*relref \"*(.+?)\"\s*>}}\)"
RelRefTag_pattern ==
    <<Greedy({"["}, 0), LazyGroup, Lit(<<"]", "(", "{", "{", "<">>),
      Greedy(Whitespace, 0), Lit(<<"r", "e", "l", "r", "e", "f", " ">>),
      Greedy({"\""}, 0), LazyGroup, Lit(<<"\"">>), Greedy(Whitespace, 0),
      Lit(<<">", "}", "}", ")">>)>>

NoMatch == [ok |-> FALSE, groups |-> <<>>]

\* how many characters of class c stand at s[p], s[p+1], ...
RunLength(s, p, c) ==
    LET stops == {j \in p..Len(s) : s[j] \notin c}
    IN  IF stops = {} THEN Len(s) - p + 1
        ELSE (CHOOSE j \in stops : \A k \in stops : j <= k) - p

RECURSIVE MatchAt(_, _, _, _)
RECURSIVE TryGreedy(_, _, _, _, _)
RECURSIVE TryLazy(_, _, _, _, _)

\* a greedy repetition that took n characters; on failure it gives one back
TryGreedy(re, k, s, p, n) ==
    IF n < re[k].min THEN NoMatch
    ELSE LET r == MatchAt(re, k + 1, s, p + n)
         IN  IF r.ok THEN r ELSE TryGreedy(re, k, s, p, n - 1)

\* (.+?) that took n characters, none a newline; on failure it takes one more
TryLazy(re, k, s, p, n) ==
    IF p + n - 1 > Len(s) \/ s[p + n - 1] = NL THEN NoMatch
    ELSE LET r == MatchAt(re, k + 1, s, p + n)
         IN  IF r.ok
             THEN [ok |-> TRUE,
                   groups |-> <<SubSeq(s, p, p + n - 1)>> \o r.groups]
             ELSE TryLazy(re, k, s, p, n + 1)

\* the pieces k.. of re matched at position p of s
MatchAt(re, k, s, p) ==
    IF k > Len(re) THEN [ok |-> TRUE, groups |-> <<>>]
    ELSE CASE re[k].t = "lit" ->
                IF /\ p + Len(re[k].s) - 1 <= Len(s)
                   /\ SubSeq(s, p, p + Len(re[k].s) - 1) = re[k].s
                THEN MatchAt(re, k + 1, s, p + Len(re[k].s))
                ELSE NoMatch
           [] re[k].t = "greedy" ->
                TryGreedy(re, k, s, p, RunLength(s, p, re[k].c))
           [] re[k].t = "group" -> TryLazy(re, k, s, p, 1)

RECURSIVE SearchFrom(_, _, _)
SearchFrom(re, s, p) ==
    IF p > Len(s) + 1 THEN NoMatch
    ELSE LET r == MatchAt(re, 1, s, p)
         IN  IF r.ok THEN r ELSE SearchFrom(re, s, p + 1)

\* the first match pattern.finditer(s) yields
Search(re, s) == SearchFrom(re, s, 1)

\* RefTag.__init__: title = match.group(1), target = match.group(2)
RefTag(match) ==
    [Token("RefTag") EXCEPT !.title = match.groups[1],
                            !.target = match.groups[2]]

\* RelRefTag.__init__: super().__init__(match)
RelRefTag(match) == [RefTag(match) EXCEPT !.kind = "RelRefTag"]

sHome == <<"H", "o", "m", "e">>
sIndex == <<"/", "i", "n", "d", "e", "x">>
sSee == <<"s", "e", "e", " ">>

Titles == {sHome, <<"a", " ", "b">>}
Targets == {sIndex, <<"p">>}
Before == {<<>>, sSee, <<"a", NL>>, <<"[">>}
After == {<<>>, <<" ", "z">>}

Shortcode(kind) ==
    IF kind = "RefTag" THEN <<"r", "e", "f">>
    ELSE <<"r", "e", "l", "r", "e", "f">>

\* before [TITLE]({{< ref "TARGET" >}}) after
Span(before, l, after) ==
    before \o <<"[">> \o l.title \o <<"]", "(", "{", "{", "<", " ">>
    \o Shortcode(l.kind) \o <<" ", "\"">> \o l.target
    \o <<"\"", " ", ">", "}", "}", ")">> \o after

Links == [kind : {"RefTag", "RelRefTag"}, title : Titles, target : Targets]

InitRef ==
    /\ link \in Links
    /\ \E b \in Before, a \in After : text = Span(b, link, a)
    /\ tok = <<>>
    /\ tokout = <<>>
    /\ tpc = "scan"
    /\ IdleRender
    /\ IdleRun

\* the tokenizer takes RefTag's first match in the span
FindRef ==
    /\ tpc = "scan"
    /\ Search(RefTag_pattern, text).ok
    /\ tok' = RefTag(Search(RefTag_pattern, text))
    /\ tpc' = "found"
    /\ UNCHANGED <<text, link, tokout>>
    /\ UNCHANGED renderVars
    /\ UNCHANGED runVars

\* the tokenizer takes RelRefTag's first match in the span
FindRelRef ==
    /\ tpc = "scan"
    /\ Search(RelRefTag_pattern, text).ok
    /\ tok' = RelRefTag(Search(RelRefTag_pattern, text))
    /\ tpc' = "found"
    /\ UNCHANGED <<text, link, tokout>>
    /\ UNCHANGED renderVars
    /\ UNCHANGED runVars

\* renderer.render(tok)
RenderTag ==
    /\ tpc = "found"
    /\ tokout' = render(tok)
    /\ tpc' = "rendered"
    /\ UNCHANGED <<text, link, tok>>
    /\ UNCHANGED renderVars
    /\ UNCHANGED runVars

NextRef == FindRef \/ FindRelRef \/ RenderTag

SpecRef == InitRef /\ [][NextRef]_vars

\* C8: wherever the link [TITLE]({{< ref "TARGET" >}}) (or relref) stands in
\* the span, the token built from it has title TITLE and target TARGET, is of
\* the link's kind, and renders to "[[TARGET][TITLE]]".
C8_TitleAndTarget ==
    tpc = "rendered" =>
        /\ tok.kind = link.kind
        /\ tok.title = link.title
        /\ tok.target = link.target
        /\ tokout = <<"[", "[">> \o link.target \o <<"]", "[">> \o link.title
                    \o <<"]", "]">>

-----------------------------------------------------------------------------
(* Runner *)

Dirs == {"posts", "about"}
Stems == {"index", "post"}
Exts == {".md", ".txt"}

Files == [dir : Dirs, stem : Stems, ext : Exts]

\* path.name
Name(f) == f.stem \o f.ext

\* what frontmatter.load reads from a file: every file has its own title
Matter(f) ==
    [metadata |-> [title |-> (IF f.dir = "posts" THEN <<"p">> ELSE <<"a">>)
                             \o (IF f.stem = "index" THEN <<"i">> ELSE <<"o">>)],
     content |-> Document(<<Paragraph(<<RawText(sHello)>>)>>)]

\* renderer.render(doc) for the file
Rendering(f) ==
    render_document(Matter(f).metadata, render_inner(Matter(f).content))

sOld == <<"o", "l", "d">>

InitRun ==
    /\ input_exists \in BOOLEAN
    /\ clobber \in BOOLEAN
    /\ tree \in (IF input_exists THEN SUBSET Files ELSE {{}})
    /\ todo = {}
    /\ dest \in {<<>>, [n \in {"index.md.org"} |-> sOld]}
    /\ rpc = "start"
    /\ metadata = <<>> /\ doc = Document(<<>>) /\ out = <<>> /\ parts = <<>>
    /\ stdout = <<>> /\ pc = "idle"
    /\ IdleRef

\* Runner.run up to the loop: the existence test, mkdir, rglob("*.md")
Run ==
    /\ rpc = "start"
    /\ IF ~input_exists
       THEN rpc' = "error" /\ todo' = todo
       ELSE rpc' = "loop" /\ todo' = {f \in tree : f.ext = ".md"}
    /\ UNCHANGED <<input_exists, clobber, tree, dest>>
    /\ UNCHANGED renderVars
    /\ UNCHANGED refVars

\* self.convert(file) for the next file rglob yields
Convert(f) ==
    /\ rpc = "loop"
    /\ f \in todo
    /\ todo' = todo \ {f}
    /\ LET output == Name(f) \o ".org"
       IN  IF output \in DOMAIN dest /\ ~clobber
           THEN UNCHANGED <<dest, stdout>>
           ELSE /\ stdout' = Append(stdout, <<"Converting", f, output>>)
                /\ dest' = [n \in DOMAIN dest \cup {output} |->
                               IF n = output THEN Rendering(f) ELSE dest[n]]
    /\ UNCHANGED <<input_exists, clobber, tree, rpc>>
    /\ UNCHANGED <<metadata, doc, out, parts, pc>>
    /\ UNCHANGED refVars

\* the loop of Runner.run ends
Return ==
    /\ rpc = "loop"
    /\ todo = {}
    /\ rpc' = "done"
    /\ UNCHANGED <<input_exists, clobber, tree, todo, dest>>
    /\ UNCHANGED renderVars
    /\ UNCHANGED refVars

NextRun == Run \/ (\E f \in Files : Convert(f)) \/ Return

SpecRun == InitRun /\ [][NextRun]_vars

\* C9: after a run with clobber on, every .md file under the source directory
\* has its own <name>.org in the destination, holding that file's rendering.
C9_EveryFileConverted ==
    (rpc = "done" /\ clobber) =>
        \A f \in tree :
            f.ext = ".md" =>
                /\ (Name(f) \o ".org") \in DOMAIN dest
                /\ dest[Name(f) \o ".org"] = Rendering(f)

-----------------------------------------------------------------------------
(* Reading a rendered text *)

IsPrefix(p, s) == Len(p) <= Len(s) /\ SubSeq(s, 1, Len(p)) = p

IsSuffix(p, s) == Len(p) <= Len(s) /\ SubSeq(s, Len(s) - Len(p) + 1, Len(s)) = p

RECURSIVE SplitLines(_)
\* s.split("\n")
SplitLines(s) ==
    IF \A i \in 1..Len(s) : s[i] # NL THEN <<s>>
    ELSE LET i == CHOOSE j \in 1..Len(s) :
                    s[j] = NL /\ \A k \in 1..(j - 1) : s[k] # NL
         IN  <<SubSeq(s, 1, i - 1)>> \o SplitLines(SubSeq(s, i + 1, Len(s)))

NotBlank(line) == line # <<>>

NonBlankLines(s) == SelectSeq(SplitLines(s), NotBlank)

\* the rendering of the Document's children, concatenated in child order
Body == Join(parts)

\* what the output holds before the body
Preamble ==
    IF IsSuffix(Body, out) THEN SubSeq(out, 1, Len(out) - Len(Body)) ELSE out

\* the directive lines of a mapping: title always, date and author when the
\* mapping has a non-empty entry
DirectivesNonEmpty(md) ==
    <<sTitleKey \o (IF "title" \in DOMAIN md THEN md["title"] ELSE <<>>)>>
    \o (IF "date" \in DOMAIN md /\ md["date"] # <<>>
        THEN <<sDateKey \o md["date"]>> ELSE <<>>)
    \o (IF "author" \in DOMAIN md /\ md["author"] # <<>>
        THEN <<sAuthorKey \o md["author"]>> ELSE <<>>)

\* the directive lines of a mapping: title always, date and author when the
\* mapping has an entry
DirectivesPresent(md) ==
    <<sTitleKey \o (IF "title" \in DOMAIN md THEN md["title"] ELSE <<>>)>>
    \o (IF "date" \in DOMAIN md THEN <<sDateKey \o md["date"]>> ELSE <<>>)
    \o (IF "author" \in DOMAIN md THEN <<sAuthorKey \o md["author"]>> ELSE <<>>)

RECURSIVE EachOnItsLine(_)
EachOnItsLine(lines) ==
    IF lines = <<>> THEN <<>>
    ELSE Head(lines) \o <<NL>> \o EachOnItsLine(Tail(lines))

-----------------------------------------------------------------------------
(* Claims about a render call *)

C1_Meta == [title |-> sPost, date |-> sDate]

C1_Doc ==
    Document(<<Heading(1, <<RawText(sPost)>>), Paragraph(<<RawText(sHello)>>)>>)

\* "#+title: Post\n#+date: 2024-01-01\n\n* Post\n\nHello\n\n"
C1_Expected ==
    <<"#", "+", "t", "i", "t", "l", "e", ":", " ", "P", "o", "s", "t", NL,
      "#", "+", "d", "a", "t", "e", ":", " ",
      "2", "0", "2", "4", "-", "0", "1", "-", "0", "1", NL,
      NL,
      "*", " ", "P", "o", "s", "t", NL, NL,
      "H", "e", "l", "l", "o", NL, NL>>

\* C1: the render of metadata {title: "Post", date: "2024-01-01"} and a body
\* of Heading(1, "Post") then Paragraph("Hello") returns exactly
\* "#+title: Post\n#+date: 2024-01-01\n\n* Post\n\nHello\n\n": the preamble,
\* then the heading's rendering, then the paragraph's.
C1_EndToEnd ==
    (pc = "done" /\ metadata = C1_Meta /\ doc = C1_Doc) =>
        /\ out = C1_Expected
        /\ parts = << <<"*", " ", "P", "o", "s", "t", NL, NL>>,
                      <<"H", "e", "l", "l", "o", NL, NL>> >>

C1_Witness == pc = "done" /\ metadata = C1_Meta /\ doc = C1_Doc

\* C2: whatever the mapping, the output is the directive lines, each on its
\* line, then exactly one blank line, then the body, with no other blank line
\* in the preamble.
C2_OneBlankLine ==
    pc = "done" =>
        out = EachOnItsLine(DirectivesNonEmpty(metadata)) \o <<NL>> \o Body

\* C3 as amended: the lines before the body that are not blank are, in this
\* order, the title line (always), the date line exactly when the mapping has
\* a non-empty date, the author line exactly when it has a non-empty author.
C3_DirectivesNonEmpty ==
    pc = "done" => NonBlankLines(Preamble) = DirectivesNonEmpty(metadata)

C3_Witness ==
    /\ pc = "done"
    /\ "title" \notin DOMAIN metadata
    /\ "date" \in DOMAIN metadata /\ metadata["date"] = <<>>
    /\ "author" \in DOMAIN metadata /\ metadata["author"] # <<>>
    /\ NonBlankLines(Preamble) = <<sTitleKey, sAuthorKey \o sAnn>>

\* C3 as stated: the date line is there exactly when the mapping has a date
\* entry, the author line exactly when it has an author entry.
C3_DirectivesPresent ==
    pc = "done" => NonBlankLines(Preamble) = DirectivesPresent(metadata)

Separated == {"Heading", "Paragraph", "BlockCode"}

\* where a block's markup starts
Opening(block) ==
    CASE block.kind = "Heading" -> Times(block.level, <<"*">>) \o <<" ">>
      [] block.kind = "BlockCode" -> sBeginSrc
      [] OTHER -> <<>>

\* what a block writes after its content, before its separator
Closing(block) == IF block.kind = "BlockCode" THEN sEndSrc ELSE <<>>

\* the output from the i-th child on
From(i) == Join(SubSeq(parts, i, Len(parts)))

C6_Pure ==
    [][pc' = "done" => (stdout' = stdout /\ doc' = doc /\ metadata' = metadata)]_vars

\* C7: a CodeBlock renders to "#+begin_src", then a space and the language
\* only when a language is given, a newline, the body, "#+end_src" and two
\* newlines.
C7_CodeBlock ==
    pc = "done" =>
        \A i \in 1..Len(doc.children) :
            LET b == doc.children[i]
            IN  b.kind = "BlockCode" =>
                    parts[i] = sBeginSrc
                               \o (IF b.language # <<>>
                                   THEN <<" ">> \o b.language ELSE <<>>)
                               \o <<NL>> \o b.children[1].content
                               \o sEndSrc \o <<NL, NL>>

\* C10: the output is the preamble followed by the complete rendering of the
\* children: the de-duplication takes nothing of the body away.
C10_BodyKept ==
    pc = "done" =>
        out = Join(Dedup(SubSeq(fragments(metadata, <<>>), 1, 6), FALSE, <<>>))
              \o Body

====
